---- MODULE Spec2Model ----
(***************************************************************************)
(* A model of the stickgen code generator (stickgen.go): the Generator's   *)
(* fields, the recursive walk over a parsed template (one action per node  *)
(* kind, with an explicit call stack standing for Go's recursion), the     *)
(* expression translator walkExpr as a recursive operator over token       *)
(* sequences, and the output assembler.                                    *)
(*                                                                         *)
(* Emitted Go text is a sequence of lines; a line is a record              *)
(* [op, ind, txt]: op names the format string that produced it, ind is the *)
(* number of tabs g.indent() put in front of it, txt the tokens after the  *)
(* indentation.  Expression text (body, resultantName) is a sequence of    *)
(* string tokens, cut so that the patterns strings.Replace looks for       *)
(* ("err", "val", "fnval") match exactly where they match in the Go        *)
(* strings: "fnval" is the two tokens "fn","val".                          *)
(***************************************************************************)
EXTENDS Integers, Sequences, FiniteSets, TLC

\* Bounds of the model.
MaxDepth == 5
MaxCalls == 2

-----------------------------------------------------------------------------
(* parse.Expr variants used by stickgen.go *)

NameExpr(n) == [k |-> "Name", name |-> n]
StringExpr(t) == [k |-> "String", text |-> t]
GetAttrExpr(c, a, n) == [k |-> "GetAttr", cont |-> c, attr |-> a, nargs |-> n]
FuncExpr(n, as) == [k |-> "Func", name |-> n, args |-> as]
BinaryExpr(o, l, r) == [k |-> "Binary", op |-> o, left |-> l, right |-> r]
NumberExpr(v) == [k |-> "Number", value |-> v]

(* parse.Node variants *)

TextNode(d, ln) == [k |-> "Text", data |-> d, line |-> ln, offset |-> "0"]
PrintNode(x, ln) == [k |-> "Print", x |-> x, line |-> ln, offset |-> "0"]
BodyNode(ns) == [k |-> "Body", nodes |-> ns]
BlockNode(n, b, ln) ==
    [k |-> "Block", name |-> n, body |-> BodyNode(b), line |-> ln, offset |-> "0"]
ForNode(ky, vl, x, b, ln) ==
    [k |-> "For", key |-> ky, val |-> vl, x |-> x, body |-> BodyNode(b), line |-> ln,
     offset |-> "0"]
IfNode(c, b, e, ln) ==
    [k |-> "If", cond |-> c, body |-> BodyNode(b), els |-> BodyNode(e), line |-> ln,
     offset |-> "0"]
IncludeNode(t, ln) == [k |-> "Include", tpl |-> t, line |-> ln]
SetNode(ln) == [k |-> "Set", line |-> ln]
NoParent == [k |-> "None"]
ModuleNode(p, b) == [k |-> "Module", parent |-> p, body |-> BodyNode(b)]

-----------------------------------------------------------------------------
(* text helpers *)

\* strings.Repeat("\t", n)
Tabs(n) == [i \in 1..n |-> "\t"]

\* strings.Index on token sequences: first position of old in s, 0 if none
Index(s, old) ==
    LET cand == {i \in 1..(Len(s) - Len(old) + 1) : SubSeq(s, i, i + Len(old) - 1) = old}
    IN IF cand = {} THEN 0 ELSE CHOOSE i \in cand : \A j \in cand : i <= j

\* strings.Replace(s, old, new, 1)
Replace1(s, old, new) ==
    LET i == Index(s, old)
    IN IF i = 0 THEN s
       ELSE SubSeq(s, 1, i - 1) \o new \o SubSeq(s, i + Len(old), Len(s))

-----------------------------------------------------------------------------
(* walkExpr: the expression translator *)

newNameExpr(name) ==
    [body |-> name, resultantName |-> name, isFunction |-> FALSE, hasError |-> FALSE]

emptyExpr ==
    [body |-> <<>>, resultantName |-> <<>>, isFunction |-> FALSE, hasError |-> FALSE]

Ok(v) == [v |-> v, err |-> "nil"]
Fail(msg) == [v |-> emptyExpr, err |-> msg]

GetAttrResult(name, attr) ==
    [body |-> <<"val", ", ", "err", " := stick.GetAttr(">> \o name.resultantName
                 \o <<", ">> \o attr.resultantName \o <<")">>,
     resultantName |-> <<"val">>, isFunction |-> TRUE, hasError |-> TRUE]

FuncArgBody(arg) ==
    IF arg.isFunction THEN Replace1(arg.body, <<"err">>, <<"_">>) ELSE <<>>

FuncResult(fname, arg, tabs) ==
    [body |-> FuncArgBody(arg)
              \o <<"\n">> \o Tabs(tabs) \o <<"\t", "var ", "fn", "val", " stick.Value = \"\"">>
              \o <<"\n">> \o Tabs(tabs) \o <<"\t", "if fn, ok := env.Functions[\"", fname, "\"]; ok {">>
              \o <<"\n">> \o Tabs(tabs) \o <<"\t", "\t", "fn", "val", " = fn(nil, ">>
                          \o arg.resultantName \o <<")">>
              \o <<"\n">> \o Tabs(tabs) \o <<"\t", "}">>,
     resultantName |-> <<"fn", "val">>, isFunction |-> TRUE, hasError |-> FALSE]

BinaryPreLeft(left) ==
    IF left.isFunction THEN Replace1(left.body, <<"err">>, <<"_ ">>) ELSE <<>>

BinaryPre(left, right, tabs) ==
    LET pre == BinaryPreLeft(left)
    IN IF right.isFunction
       THEN (IF pre # <<>> THEN pre \o <<"\n">> \o Tabs(tabs) ELSE pre)
            \o Replace1(Replace1(left.body, <<"err">>, <<"_ ">>),
                        right.resultantName, <<"right">>)
       ELSE pre

BinaryResult(left, right, tabs) ==
    [body |-> BinaryPre(left, right, tabs),
     isFunction |-> left.isFunction \/ right.isFunction,
     hasError |-> FALSE,
     resultantName |-> <<"stick.Equal(">> \o left.resultantName \o <<", ">>
                       \o (IF right.isFunction THEN <<"right">> ELSE right.resultantName)
                       \o <<")">>]

RECURSIVE walkExpr(_, _, _)
walkExpr(e, args, tabs) ==
    CASE e.k = "Name" ->
           IF e.name \in args
           THEN Ok(newNameExpr(<<e.name>>))
           ELSE Ok(newNameExpr(<<"ctx[\"", e.name, "\"]">>))
      [] e.k = "String" -> Ok(newNameExpr(<<"\"", e.text, "\"">>))
      [] e.k = "GetAttr" ->
           IF e.nargs > 0 THEN Fail("Method calls are currently unsupported.")
           ELSE LET attr == walkExpr(e.attr, args, tabs)
                IN IF attr.err # "nil" THEN Fail(attr.err)
                   ELSE LET name == walkExpr(e.cont, args, tabs)
                        IN IF name.err # "nil" THEN Fail(name.err)
                           ELSE Ok(GetAttrResult(name.v, attr.v))
      [] e.k = "Func" ->
           IF Len(e.args) # 1
           THEN Fail("Function currently calls only support a single argument.")
           ELSE LET arg == walkExpr(e.args[1], args, tabs)
                IN IF arg.err # "nil" THEN Fail(arg.err)
                   ELSE Ok(FuncResult(e.name, arg.v, tabs))
      [] e.k = "Binary" ->
           IF e.op = "=="
           THEN LET left == walkExpr(e.left, args, tabs)
                IN IF left.err # "nil" THEN Fail(left.err)
                   ELSE LET right == walkExpr(e.right, args, tabs)
                        IN IF right.err # "nil" THEN Fail(right.err)
                           ELSE Ok(BinaryResult(left.v, right.v, tabs))
           ELSE Fail("stickgen: unsupported binary operator")
      [] OTHER -> Ok(emptyExpr)


-----------------------------------------------------------------------------
(* titleize: the identifier namer *)

\* the runes of the names the templates use
Runes(s) ==
    CASE s = "a" -> <<"a">>
      [] s = "b" -> <<"b">>
      [] s = "c.t" -> <<"c", ".", "t">>
      [] s = "x" -> <<"x">>
      [] s = "y_z" -> <<"y", "_", "z">>
      [] OTHER -> <<s>>

\* \w without the underscore: what notWord leaves in place
IsWordRune(r) == r \in {"a", "b", "c", "t", "x", "y", "z"}

ToUpper(r) ==
    CASE r = "a" -> "A" [] r = "b" -> "B" [] r = "c" -> "C" [] r = "t" -> "T"
      [] r = "x" -> "X" [] r = "y" -> "Y" [] r = "z" -> "Z" [] OTHER -> r

\* notWord.ReplaceAllString(in, " ")
notWordReplace(rs) == [i \in 1..Len(rs) |-> IF IsWordRune(rs[i]) THEN rs[i] ELSE " "]

\* strings.Title: upper-case the first letter of every word
Title(rs) ==
    [i \in 1..Len(rs) |-> IF i = 1 \/ rs[i - 1] = " " THEN ToUpper(rs[i]) ELSE rs[i]]

RECURSIVE Join(_)
Join(rs) == IF rs = <<>> THEN "" ELSE Head(rs) \o Join(Tail(rs))

titleize(in) ==
    Join(SelectSeq(Title(notWordReplace(Runes(in))), LAMBDA r : r # " "))

-----------------------------------------------------------------------------
(* the emitted lines *)

Line(op, ind, txt) == [op |-> op, ind |-> ind, txt |-> txt]

TraceComment(node, tabs, name) ==
    Line("comment", tabs, <<"// line ", node.line, ", offset ", node.offset, " in ", name>>)

FprintResult(tabs, resultantName) ==
    Line("write", tabs, <<"fmt.Fprint(output, ">> \o resultantName \o <<")">>)

TextLines(node, tabs, name) ==
    << TraceComment(node, tabs, name),
       Line("text", tabs, <<"fmt.Fprint(output, ", "BACKQUOTE", node.data, "BACKQUOTE", ")">>) >>

\* mutant of PrintLines: v.hasError is not looked at
PrintLinesUnguarded(node, v, tabs, name) ==
    <<TraceComment(node, tabs, name)>> \o
    (IF v.isFunction
     THEN << Line("open", tabs, <<"{">>), Line("pre", tabs + 1, v.body),
             FprintResult(tabs + 1, v.resultantName), Line("close", tabs, <<"}">>) >>
     ELSE <<FprintResult(tabs, v.resultantName)>>)

\* case *parse.PrintNode, lines 184-212: the lines written for a translated expression
PrintLines(node, v, tabs, name) ==
    <<TraceComment(node, tabs, name)>> \o
    (IF v.isFunction
     THEN <<Line("open", tabs, <<"{">>), Line("pre", tabs + 1, v.body)>> \o
          (IF v.hasError
           THEN << Line("guard", tabs + 1, <<"if ", "err", " == nil {">>),
                   FprintResult(tabs + 2, v.resultantName),
                   Line("close", tabs + 1, <<"}">>) >>
           ELSE << FprintResult(tabs + 1, v.resultantName) >>) \o
          <<Line("close", tabs, <<"}">>)>>
     ELSE <<FprintResult(tabs, v.resultantName)>>)

BlockCallLines(node, tabs, name, rootName) ==
    << TraceComment(node, tabs, name),
       Line("call", tabs,
            <<"block", titleize(rootName), titleize(node.name), "(env, output, ctx)">>) >>

BlockFuncHeader(node, rootName) ==
    Line("func", 0, <<"func block", titleize(rootName), titleize(node.name),
                      "(env *stick.Env, output io.Writer, ctx map[string]stick.Value) {">>)

ForKey(node) == IF node.key # "" THEN node.key ELSE "_"

ForLines(node, v, tabs, name) ==
    << TraceComment(node, tabs, name),
       Line("iter", tabs,
            <<"stick.Iterate(">> \o v.resultantName \o
            <<", func(", ForKey(node), ", ", node.val,
              " stick.Value, loop stick.Loop) (brk bool, err error) {">>) >>

IfErrCheck(cond) ==
    IF cond.isFunction /\ cond.hasError THEN <<"err", " == nil && ">> ELSE <<>>

IfLines(node, cond, tabs, name) ==
    <<TraceComment(node, tabs, name)>> \o
    (IF cond.isFunction
     THEN <<Line("open", tabs, <<"{">>), Line("pre", tabs + 1, cond.body)>>
     ELSE <<>>) \o
    <<Line("if", IF cond.isFunction THEN tabs + 1 ELSE tabs,
           <<"if ">> \o IfErrCheck(cond) \o <<"stick.CoerceBool(">>
           \o cond.resultantName \o <<") {">>)>>

-----------------------------------------------------------------------------
(* the templates the loader serves: the inputs of the model *)

TplNames == {"a", "b", "c.t"}

NotFound == [k |-> "NotFound"]
SyntaxError == [k |-> "SyntaxError"]

U == NameExpr("u")
UN == GetAttrExpr(U, StringExpr("name"), 0)
Method == GetAttrExpr(U, StringExpr("m"), 1)

ExprPool ==
    { U, NameExpr("v"), StringExpr("s"), UN,
      GetAttrExpr(UN, StringExpr("c"), 0),
      Method,
      FuncExpr("f", <<U>>), FuncExpr("f", <<UN>>), FuncExpr("f", <<U, U>>),
      FuncExpr("f", <<FuncExpr("g", <<U>>)>>),
      BinaryExpr("==", U, StringExpr("s")),
      BinaryExpr("==", UN, U),
      BinaryExpr("==", U, UN),
      BinaryExpr("==", UN, GetAttrExpr(U, StringExpr("id"), 0)),
      BinaryExpr("==", FuncExpr("f", <<U>>), UN),
      BinaryExpr("<", U, U),
      NumberExpr("5") }

Lib(a, b, c) == [n \in TplNames |-> CASE n = "a" -> a [] n = "b" -> b [] OTHER -> c]

\* one expression in a print, in an if condition and as a for iterable
ExprLib(e) ==
    Lib(ModuleNode(NoParent, <<PrintNode(e, "1"), TextNode("t", "2")>>),
        ModuleNode(NoParent,
                   << IfNode(e, <<PrintNode(UN, "2")>>, <<TextNode("e", "3")>>, "1"),
                      IfNode(e, <<TextNode("t", "5")>>, <<>>, "4") >>),
        ModuleNode(NoParent,
                   << ForNode("k", "v", e,
                              <<PrintNode(NameExpr("v"), "2"), PrintNode(e, "3")>>, "1"),
                      PrintNode(NameExpr("v"), "4") >>))

\* the extends chain a <- b <- c.t, block x declared in a, optionally in b and c.t
ChainLib(bDef, cDef) ==
    Lib(ModuleNode(NoParent,
                   << TextNode("h", "1"),
                      BlockNode("x", <<TextNode("ta", "3")>>, "2"),
                      BlockNode("y_z", <<PrintNode(U, "5")>>, "4"),
                      TextNode("f", "6") >>),
        ModuleNode(StringExpr("a"),
                   IF bDef THEN <<BlockNode("x", <<TextNode("tb", "2")>>, "1")>> ELSE <<>>),
        ModuleNode(StringExpr("b"),
                   IF cDef THEN <<BlockNode("x", <<TextNode("tc", "2")>>, "1")>> ELSE <<>>))

LoopLib ==
    Lib(ModuleNode(NoParent,
                   << ForNode("", "x", NameExpr("xs"),
                              << ForNode("", "x", NameExpr("ys"),
                                         <<PrintNode(NameExpr("x"), "3")>>, "2"),
                                 PrintNode(NameExpr("x"), "4") >>, "1"),
                      PrintNode(NameExpr("x"), "5") >>),
        ModuleNode(NoParent,
                   << ForNode("k", "v", U,
                              << BlockNode("x", <<PrintNode(NameExpr("v"), "3")>>, "2"),
                                 PrintNode(NameExpr("k"), "4"),
                                 IncludeNode(StringExpr("a"), "5") >>, "1") >>),
        ModuleNode(NoParent,
                   << ForNode("k", "v", UN,
                              <<PrintNode(Method, "2"), TextNode("t", "3")>>, "1"),
                      IfNode(U, <<PrintNode(Method, "5"), TextNode("t", "6")>>,
                             <<IncludeNode(U, "7")>>, "4"),
                      TextNode("t", "8") >>))

IncludeLib ==
    Lib(ModuleNode(NoParent,
                   << TextNode("h", "1"), IncludeNode(StringExpr("b"), "2"),
                      TextNode("f", "3") >>),
        ModuleNode(NoParent,
                   << BlockNode("x", <<TextNode("tb", "2")>>, "1"), PrintNode(U, "3") >>),
        ModuleNode(StringExpr("a"), <<IncludeNode(StringExpr("b"), "1")>>))

IncludeParentLib ==
    Lib(ModuleNode(NoParent, <<IncludeNode(StringExpr("b"), "1"), SetNode("2")>>),
        ModuleNode(StringExpr("c.t"), <<BlockNode("x", <<TextNode("tb", "2")>>, "1")>>),
        ModuleNode(NoParent,
                   <<BlockNode("x", <<TextNode("tc", "2")>>, "1"), TextNode("f", "3")>>))

ErrorLib ==
    Lib(ModuleNode(NoParent, <<IncludeNode(U, "1"), TextNode("t", "2")>>),
        ModuleNode(NoParent,
                   << TextNode("h", "1"), IncludeNode(StringExpr("c.t"), "2"),
                      TextNode("t", "3") >>),
        NotFound)

ExtendsErrorLib ==
    Lib(ModuleNode(U, <<TextNode("t", "1")>>),
        ModuleNode(StringExpr("a"), <<TextNode("t", "1")>>),
        SyntaxError)

CycleLib ==
    Lib(ModuleNode(StringExpr("a"), <<TextNode("t", "1")>>),
        ModuleNode(NoParent, <<TextNode("h", "1"), IncludeNode(StringExpr("c.t"), "2")>>),
        ModuleNode(NoParent, <<IncludeNode(StringExpr("b"), "1")>>))

BlockCycleLib ==
    Lib(ModuleNode(NoParent, <<BlockNode("x", <<IncludeNode(StringExpr("a"), "2")>>, "1")>>),
        ModuleNode(NoParent,
                   <<BlockNode("x", <<IncludeNode(StringExpr("c.t"), "2")>>, "1")>>),
        ModuleNode(NoParent,
                   << IfNode(U, <<IncludeNode(StringExpr("c.t"), "2")>>, <<>>, "1") >>))

NestedBlockLib ==
    Lib(ModuleNode(NoParent,
                   << BlockNode("x", << BlockNode("y_z", <<TextNode("in", "3")>>, "2"),
                                        TextNode("out", "4") >>, "1") >>),
        ModuleNode(StringExpr("a"), <<TextNode("t", "1")>>),
        ModuleNode(NoParent, <<TextNode("Hello, World!", "1")>>))

Libraries ==
    {ExprLib(e) : e \in ExprPool}
    \cup {ChainLib(bd, cd) : bd \in BOOLEAN, cd \in BOOLEAN}
    \cup {LoopLib, IncludeLib, IncludeParentLib, ErrorLib, ExtendsErrorLib, CycleLib,
          BlockCycleLib, NestedBlockLib}

-----------------------------------------------------------------------------
(* the generator *)

VARIABLES
    loader,    \* Generator.loader: template name -> parsed module, or a load/parse failure
    out,       \* Generator.out: the lines written so far
    name,      \* Generator.name
    imports,   \* Generator.imports (the keys; every value is true)
    blocks,    \* Generator.blocks: block name -> the closure's captured (node, rootName)
    args,      \* Generator.args (the keys)
    root,      \* Generator.root
    stack,     \* Generator.stack
    tabs,      \* Generator.tabs
    cs,        \* the Go call stack: one frame per call of Generate/generate/walk in progress
    ret,       \* the error the call that returned last returned ("nil" for nil)
    rets       \* what the Generate calls made so far returned, in order

vars == <<loader, out, name, imports, blocks, args, root, stack, tabs, cs, ret, rets>>

gen == <<out, name, imports, blocks, args, root, stack, tabs>>

Top == cs[Len(cs)]
Pop == SubSeq(cs, 1, Len(cs) - 1)
Call(frame, callee) == Append(Append(Pop, frame), callee)
WalkFrame(node) == [pc |-> "walk", node |-> node, t0 |-> tabs]
WalkFrameAt(node, t) == [pc |-> "walk", node |-> node, t0 |-> t]
At(pc) == cs # <<>> /\ Top.pc = pc
AtNode(kind) == At("walk") /\ Top.node.k = kind

EmptyUnit == [pkgName |-> "", imports |-> {}, funcs |-> <<>>, fname |-> "", body |-> <<>>]

\* NewGenerator
Init ==
    /\ loader \in Libraries
    /\ out = <<>>
    /\ name = ""
    /\ imports = {"github.com/tyler-sommer/stick", "io"}
    /\ blocks = <<>>
    /\ args = {}
    /\ root = TRUE
    /\ stack = <<>>
    /\ tabs = 1
    /\ cs = <<>>
    /\ ret = "nil"
    /\ rets = <<>>

\* addImport
addImport(n) == IF n \notin imports THEN imports \cup {n} ELSE imports

\* evaluate
evaluate(e) == IF e.k = "String" THEN [s |-> e.text, ok |-> TRUE] ELSE [s |-> "", ok |-> FALSE]

\* a caller invokes Generate(n): lines 45-46, up to the call of generate
Generate(n) ==
    /\ cs = <<>>
    /\ Len(rets) < MaxCalls
    /\ cs' = <<[pc |-> "Generate", name |-> n], [pc |-> "generate", name |-> n]>>
    /\ ret' = "nil"
    /\ UNCHANGED <<loader, gen, rets>>

\* mutant of load: a visited-set check on the inheritance stack (a cycle guard)
loadCycleGuard(n) ==
    IF \E i \in 1..Len(stack) : stack[i] = n THEN [k |-> "CycleDetected"]
    ELSE IF n \in DOMAIN loader THEN loader[n] ELSE NotFound

\* generate, lines 79-91: Load, ReadAll and Parse; a module, or the failure
load(n) == IF n \in DOMAIN loader THEN loader[n] ELSE NotFound

\* generate, lines 79-102: load, parse, push the stack, call walk on the tree's root
generateLoad ==
    /\ At("generate")
    /\ LET tpl == load(Top.name)
       IN IF tpl.k # "Module"
          THEN /\ cs' = Pop
               /\ ret' = tpl.k
               /\ UNCHANGED <<loader, gen, rets>>
          ELSE /\ Len(stack) < MaxDepth
               /\ name' = Top.name
               /\ stack' = Append(stack, Top.name)
               /\ root' = (Len(stack') = 1)
               /\ cs' = Call([pc |-> "generate.walk", name |-> Top.name,
                              deferred |-> ~root'],
                             WalkFrame(tpl))
               /\ ret' = "nil"
               /\ UNCHANGED <<loader, out, imports, blocks, args, tabs, rets>>

\* mutant of deferredPop: the pop forgets to restore g.name
deferredPopKeepName(stk) ==
    LET popped == SubSeq(stk, 1, Len(stk) - 1)
    IN [stack |-> popped, name |-> name, root |-> (Len(popped) = 1)]

\* the deferred function of lines 96-100
deferredPop(stk) ==
    LET popped == SubSeq(stk, 1, Len(stk) - 1)
    IN [stack |-> popped, name |-> popped[Len(popped)], root |-> (Len(popped) = 1)]

\* generate, lines 95-103: walk has returned (its error is not looked at); the
\* deferred pop runs if it was registered; nil is returned
generateReturn ==
    /\ At("generate.walk")
    /\ IF Top.deferred
       THEN LET d == deferredPop(stack)
            IN /\ stack' = d.stack
               /\ name' = d.name
               /\ root' = d.root
       ELSE UNCHANGED <<stack, name, root>>
    /\ cs' = Pop
    /\ ret' = "nil"
    /\ UNCHANGED <<loader, out, imports, blocks, args, tabs, rets>>

\* Generate, lines 47-50: generate has returned
GenerateReturn ==
    /\ At("Generate")
    /\ IF ret # "nil"
       THEN /\ rets' = Append(rets, [name |-> Top.name, err |-> ret, unit |-> EmptyUnit])
            /\ cs' = <<>>
       ELSE /\ cs' = <<[pc |-> "output", name |-> Top.name, body |-> out, funcs |-> <<>>,
                        keys |-> DOMAIN blocks, visited |-> {}]>>
            /\ rets' = rets
    /\ UNCHANGED <<loader, gen, ret>>

\* output, lines 109-111: the range over g.blocks reaches an entry it has not produced
\* yet; out is reset and the closure starts: it writes the header and walks the body
outputBlock ==
    /\ At("output")
    /\ \E b \in DOMAIN blocks \ Top.visited :
         /\ out' = <<BlockFuncHeader(blocks[b].node, blocks[b].rootName)>>
         /\ cs' = Call([Top EXCEPT !.visited = @ \cup {b}],
                       [pc |-> "block"]) \o <<WalkFrame(blocks[b].node.body)>>
    /\ ret' = "nil"
    /\ UNCHANGED <<loader, name, imports, blocks, args, root, stack, tabs, rets>>

\* the closure of lines 218-223 ends, and line 112 appends what it wrote to funcs
blockReturn ==
    /\ At("block")
    /\ out' = Append(out, Line("endfunc", 0, <<"}">>))
    /\ cs' = Append(SubSeq(cs, 1, Len(cs) - 2),
                    [cs[Len(cs) - 1] EXCEPT !.funcs = Append(@, out')])
    /\ ret' = "nil"
    /\ UNCHANGED <<loader, name, imports, blocks, args, root, stack, tabs, rets>>

\* output, lines 114-132: the range is over (every entry the map held when it began
\* has been produced; entries added meanwhile may have been skipped)
outputFinish ==
    /\ At("output")
    /\ Top.keys \subseteq Top.visited
    /\ rets' = Append(rets, [name |-> Top.name, err |-> "nil",
                             unit |-> [pkgName |-> "main", imports |-> imports,
                                       funcs |-> Top.funcs,
                                       fname |-> "Template" \o titleize(name),
                                       body |-> Top.body]])
    /\ cs' = <<>>
    /\ UNCHANGED <<loader, gen, ret>>

-----------------------------------------------------------------------------
(* walk: one action per case of the type switch *)

Return(err) == cs' = Pop /\ ret' = err

\* case *parse.ModuleNode, lines 144-155, up to the first call it makes
walkModule ==
    /\ AtNode("Module")
    /\ IF Top.node.parent.k # "None"
       THEN LET ev == evaluate(Top.node.parent)
            IN IF ev.ok
               THEN /\ cs' = Call([Top EXCEPT !.pc = "Module.parent"],
                                  [pc |-> "generate", name |-> ev.s])
                    /\ ret' = "nil"
               ELSE Return("Unable to evaluate extends reference")
       ELSE /\ cs' = Call([Top EXCEPT !.pc = "Module.body"], WalkFrame(Top.node.body))
            /\ ret' = "nil"
    /\ UNCHANGED <<loader, gen, rets>>

\* lines 146-155: generate(parent) has returned
walkModuleParent ==
    /\ At("Module.parent")
    /\ IF ret # "nil"
       THEN Return(ret)
       ELSE /\ cs' = Call([Top EXCEPT !.pc = "Module.body"], WalkFrame(Top.node.body))
            /\ ret' = "nil"
    /\ UNCHANGED <<loader, gen, rets>>

\* line 155: return g.walk(node.BodyNode)
walkModuleReturn ==
    /\ At("Module.body")
    /\ Return(ret)
    /\ UNCHANGED <<loader, gen, rets>>

\* case *parse.BodyNode, lines 157-162: the loop over the children; i children are done
walkBody ==
    /\ \/ AtNode("Body")
       \/ At("Body")
    /\ LET i == IF Top.pc = "walk" THEN 0 ELSE Top.i
       IN IF i > 0 /\ ret # "nil"
          THEN Return(ret)
          ELSE IF i = Len(Top.node.nodes)
               THEN Return("nil")
               ELSE /\ cs' = Call([pc |-> "Body", node |-> Top.node, t0 |-> Top.t0,
                                   i |-> i + 1],
                                  WalkFrame(Top.node.nodes[i + 1]))
                    /\ ret' = "nil"
    /\ UNCHANGED <<loader, gen, rets>>

\* case *parse.IncludeNode, lines 164-172, up to the call of generate
walkInclude ==
    /\ AtNode("Include")
    /\ LET ev == evaluate(Top.node.tpl)
       IN IF ev.ok
          THEN /\ cs' = Call([pc |-> "Include.generate", node |-> Top.node, t0 |-> Top.t0,
                              s0 |-> [stack |-> stack, name |-> name, root |-> root,
                                      out |-> out]],
                             [pc |-> "generate", name |-> ev.s])
               /\ ret' = "nil"
          ELSE Return("Unable to evaluate include reference")
    /\ UNCHANGED <<loader, gen, rets>>

\* lines 165-168 and 291: generate(name) has returned
walkIncludeReturn ==
    /\ At("Include.generate")
    /\ Return(ret)
    /\ UNCHANGED <<loader, gen, rets>>

\* case *parse.TextNode, lines 174-177
walkText ==
    /\ AtNode("Text")
    /\ imports' = addImport("fmt")
    /\ out' = out \o TextLines(Top.node, tabs, name)
    /\ Return("nil")
    /\ UNCHANGED <<loader, name, blocks, args, root, stack, tabs, rets>>

\* case *parse.PrintNode, lines 179-212
walkPrint ==
    /\ AtNode("Print")
    /\ \E v \in {walkExpr(Top.node.x, args, tabs)} :
          IF v.err # "nil"
          THEN /\ Return(v.err)
               /\ UNCHANGED <<out, imports>>
          ELSE /\ imports' = addImport("fmt")
               /\ out' = out \o PrintLines(Top.node, v.v, tabs, name)
               /\ Return("nil")
    /\ UNCHANGED <<loader, name, blocks, args, root, stack, tabs, rets>>

\* lines 216-224: g.blocks[node.Name] = the closure over (g, node, g.stack[0])
registerBlock(bs, node, rootName) ==
    [b \in DOMAIN bs \cup {node.name} |->
        IF b = node.name THEN [node |-> node, rootName |-> rootName] ELSE bs[b]]

\* case *parse.BlockNode, lines 215-229
walkBlock ==
    /\ AtNode("Block")
    /\ imports' = addImport("fmt")
    /\ blocks' = registerBlock(blocks, Top.node, stack[1])
    /\ out' = IF ~root
              THEN out \o BlockCallLines(Top.node, tabs, name, stack[1])
              ELSE out
    /\ Return("nil")
    /\ UNCHANGED <<loader, name, args, root, stack, tabs, rets>>

\* case *parse.ForNode, lines 231-246, up to the call of walk on the body
walkFor ==
    /\ AtNode("For")
    /\ \E v \in {walkExpr(Top.node.x, args, tabs)} :
          IF v.err # "nil"
          THEN /\ Return(v.err)
               /\ UNCHANGED <<out, args, tabs>>
          ELSE /\ args' = (IF Top.node.key # "" THEN args \cup {Top.node.key} ELSE args)
                          \cup {Top.node.val}
               /\ out' = out \o ForLines(Top.node, v.v, tabs, name)
               /\ tabs' = tabs + 1
               /\ cs' = Call([Top EXCEPT !.pc = "For.body"],
                             WalkFrameAt(Top.node.body, tabs'))
               /\ ret' = "nil"
    /\ UNCHANGED <<loader, name, imports, blocks, root, stack, rets>>

\* lines 246-253 and 291: walk(node.Body) has returned (its error is not looked at)
walkForReturn ==
    /\ At("For.body")
    /\ args' = (args \ {Top.node.val}) \ {ForKey(Top.node)}
    /\ out' = out \o << Line("ret", tabs, <<"return false, nil">>),
                        Line("iterclose", tabs - 1, <<"})">>) >>
    /\ tabs' = tabs - 1
    /\ Return("nil")
    /\ UNCHANGED <<loader, name, imports, blocks, root, stack, rets>>

\* mutant of IfDeferred: the closing brace is written without g.tabs--
IfDeferredNoDedent(scoped, t) ==
    IF scoped THEN [tabs |-> t, lines |-> <<Line("close", t, <<"}">>)>>]
    ELSE [tabs |-> t, lines |-> <<>>]

\* what the deferred function of lines 267-271 does when the If case returns
IfDeferred(scoped, t) ==
    IF scoped THEN [tabs |-> t - 1, lines |-> <<Line("close", t - 1, <<"}">>)>>]
    ELSE [tabs |-> t, lines |-> <<>>]

\* case *parse.IfNode, lines 255-279, up to the call of walk on the body
walkIf ==
    /\ AtNode("If")
    /\ \E cond \in {walkExpr(Top.node.cond, args, tabs)} :
          IF cond.err # "nil"
          THEN /\ Return(cond.err)
               /\ UNCHANGED <<out, tabs>>
          ELSE /\ out' = out \o IfLines(Top.node, cond.v, tabs, name)
               /\ tabs' = (IF cond.v.isFunction THEN tabs + 1 ELSE tabs) + 1
               /\ cs' = Call([Top EXCEPT !.pc = "If.body"] @@ [scoped |-> cond.v.isFunction],
                             WalkFrameAt(Top.node.body, tabs'))
               /\ ret' = "nil"
    /\ UNCHANGED <<loader, name, imports, blocks, args, root, stack, rets>>

\* lines 279-291: walk(node.Body) has returned; the else branch, if any, is walked
walkIfBody ==
    /\ At("If.body")
    /\ IF Len(Top.node.els.nodes) > 0
       THEN /\ out' = Append(out, Line("else", tabs - 1, <<"} else {">>))
            /\ tabs' = tabs
            /\ cs' = Call([Top EXCEPT !.pc = "If.else"], WalkFrameAt(Top.node.els, tabs'))
            /\ ret' = "nil"
       ELSE LET d == IfDeferred(Top.scoped, tabs - 1)
            IN /\ out' = Append(out, Line("close", tabs - 1, <<"}">>)) \o d.lines
               /\ tabs' = d.tabs
               /\ Return("nil")
    /\ UNCHANGED <<loader, name, imports, blocks, args, root, stack, rets>>

\* lines 285-291: walk(node.Else) has returned
walkIfElse ==
    /\ At("If.else")
    /\ LET d == IfDeferred(Top.scoped, tabs - 1)
       IN /\ out' = Append(out, Line("close", tabs - 1, <<"}">>)) \o d.lines
          /\ tabs' = d.tabs
          /\ Return("nil")
    /\ UNCHANGED <<loader, name, imports, blocks, args, root, stack, rets>>

\* any other node: no case of the switch, line 291
walkOther ==
    /\ At("walk")
    /\ Top.node.k \notin {"Module", "Body", "Include", "Text", "Print", "Block", "For", "If"}
    /\ Return("nil")
    /\ UNCHANGED <<loader, gen, rets>>

Step ==
    \/ generateLoad
    \/ generateReturn
    \/ GenerateReturn
    \/ outputBlock
    \/ blockReturn
    \/ outputFinish
    \/ walkModule
    \/ walkModuleParent
    \/ walkModuleReturn
    \/ walkBody
    \/ walkInclude
    \/ walkIncludeReturn
    \/ walkText
    \/ walkPrint
    \/ walkBlock
    \/ walkFor
    \/ walkForReturn
    \/ walkIf
    \/ walkIfBody
    \/ walkIfElse
    \/ walkOther

Next ==
    \/ \E n \in TplNames : Generate(n)
    \/ Step

Spec == Init /\ [][Next]_vars

\* generate and walk are synchronous Go calls: a call in progress runs on
FairSpec == Spec /\ WF_vars(Step)
-----------------------------------------------------------------------------
(* helpers of the properties *)

Last(q) == q[Len(q)]
Ops(lines) == [i \in 1..Len(lines) |-> lines[i].op]
HasOp(lines, op) == \E i \in 1..Len(lines) : lines[i].op = op
Emitted == SubSeq(out', Len(out) + 1, Len(out'))
Returned(i) == i \in 1..Len(rets) /\ rets[i].err = "nil"

\* the for-loops whose bodies are being walked, and the identifiers they bind
ForFrames == {i \in 1..Len(cs) : cs[i].pc = "For.body"}
BoundBy(node) == {node.val} \cup (IF node.key # "" THEN {node.key} ELSE {})
EnclosingLocals == UNION {BoundBy(cs[i].node) : i \in ForFrames}

-----------------------------------------------------------------------------
(* C1: compilation is all-or-nothing.  Once a call made during the walk has  *)
(* returned an error, every later step up to the return of Generate hands    *)
(* that error on, and Generate returns it with the empty unit.               *)
C1_ErrorsAbortGenerate ==
    [][ (cs # <<>> /\ ret # "nil") =>
            /\ ret' # "nil"
            /\ cs' = <<>> => /\ Len(rets') = Len(rets) + 1
                             /\ Last(rets').err # "nil"
                             /\ Last(rets').unit = EmptyUnit ]_vars

(* C4: at every point of the walk the active locals (g.args) are exactly the *)
(* identifiers bound by the for-loops whose bodies enclose that point.       *)
C4_ArgsAreEnclosingLocals == args = EnclosingLocals

(* C5: every unit a Generate call returns names its render function         *)
(* "Template" followed by titleize of the name that call was given.         *)
C5_RenderNamedAfterOwnTemplate ==
    \A i \in 1..Len(rets) :
        Returned(i) => rets[i].unit.fname = "Template" \o titleize(rets[i].name)

(* C6: idempotence.  Two Generate calls for the same name return the same    *)
(* render function, render body and block functions (imports are compared   *)
(* as a set, so their order is left out).                                    *)
C6_SecondGenerateSameOutput ==
    \A i, j \in 1..Len(rets) :
        (Returned(i) /\ Returned(j) /\ rets[i].name = rets[j].name)
            => rets[i].unit = rets[j].unit

-----------------------------------------------------------------------------
(* C2: the three-level extends chain a <- b <- c.t, block x *)

ChainRun(bd, cd) == loader = ChainLib(bd, cd) /\ Returned(1) /\ rets[1].name = "c.t"
FuncsFor(unit, blk) ==
    {j \in 1..Len(unit.funcs) : unit.funcs[j][1].txt[3] = titleize(blk)}
TextsOf(lines) == {lines[i].txt[3] : i \in {j \in 1..Len(lines) : lines[j].op = "text"}}
CallSites(lines, blk) ==
    {i \in 2..Len(lines) : lines[i].op = "call" /\ lines[i].txt[3] = titleize(blk)}
(* C2: after Generate("c.t") on the chain a <- b <- c.t, the unit holds one *)
(* block function for x, the render body calls it exactly once, and (when   *)
(* c.t does not declare x itself) its body is a's unless b redeclares x.    *)
C2_OneFunctionCalledOnce ==
    \A bd, cd \in BOOLEAN :
        ChainRun(bd, cd) =>
            LET u == rets[1].unit
            IN /\ Cardinality(FuncsFor(u, "x")) = 1
               /\ ~cd => \A j \in FuncsFor(u, "x") :
                             TextsOf(u.funcs[j]) = {IF bd THEN "tb" ELSE "ta"}
               /\ Cardinality(CallSites(u.body, "x")) = 1

-----------------------------------------------------------------------------
(* C3: a fallible expression (an attribute access) in a Print or an If      *)
(* condition is emitted as scope opening, lookup preamble, guard on the      *)
(* lookup's success, and the write (the branch) inside the guard, in this    *)
(* order; any other expression is written (branched on) without a guard.     *)

Fallible(e) == e.k = "GetAttr"
IsLookup(line) == Index(line.txt, <<"val", ", ", "err", " := stick.GetAttr(">>) = 1

C3_FallibleGuardedInOrder ==
    [][ /\ (AtNode("Print") /\ ret' = "nil") =>
               IF Fallible(Top.node.x)
               THEN /\ Ops(Emitted) =
                         <<"comment", "open", "pre", "guard", "write", "close", "close">>
                    /\ IsLookup(Emitted[3])
                    /\ Emitted[4].txt = <<"if ", "err", " == nil {">>
                    /\ Emitted[5].txt = <<"fmt.Fprint(output, ", "val", ")">>
                    /\ Emitted[5].ind > Emitted[4].ind
                    /\ Emitted[6].ind = Emitted[4].ind
               ELSE Ops(Emitted) \in { <<"comment", "write">>,
                                       <<"comment", "open", "pre", "write", "close">> }
        /\ (AtNode("If") /\ Len(cs') > Len(cs)) =>
               IF Fallible(Top.node.cond)
               THEN /\ Ops(Emitted) = <<"comment", "open", "pre", "if">>
                    /\ IsLookup(Emitted[3])
                    /\ SubSeq(Emitted[4].txt, 1, 5) =
                         <<"if ", "err", " == nil && ", "stick.CoerceBool(", "val">>
               ELSE /\ Ops(Emitted) \in { <<"comment", "if">>,
                                          <<"comment", "open", "pre", "if">> }
                    /\ SubSeq(Last(Emitted).txt, 1, 2) = <<"if ", "stick.CoerceBool(">>
      ]_vars

C3_Witness ==
    /\ \E i \in 1..(Len(out) - 1) : out[i].op = "guard" /\ out[i + 1].op = "write"
    /\ \E i \in 1..Len(out) : out[i].op = "if" /\ Len(out[i].txt) > 2 /\ out[i].txt[2] = "err"

-----------------------------------------------------------------------------
(* C7: include *)

Including == \E i \in 1..Len(cs) : cs[i].pc = "Include.generate"
GenFrames == {i \in 1..Len(cs) : cs[i].pc = "generate.walk"}
TopGen == CHOOSE i \in GenFrames : \A j \in GenFrames : j <= i
\* the walk is in the template an include names
InIncluded == GenFrames # {} /\ cs[TopGen - 1].pc = "Include.generate"

(* C7 as stated: a Block inside an included template emits a call exactly   *)
(* when the including template is not the inheritance root.                 *)
C7_BlockCallDependsOnIncluder ==
    [][ (AtNode("Block") /\ InIncluded) =>
            ((out' # out) <=> ~cs[TopGen - 1].s0.root) ]_vars

(* C7 amended: the lines of an included template are appended at the        *)
(* current position and are those of walking the target as a non-root       *)
(* template: a Block walked while an include is in progress always emits    *)
(* its call, named for the inheritance root, under a trace comment naming   *)
(* the template being walked; and when the include returns, the stack, the  *)
(* current name and the root flag are what they were before it.             *)
C7_IncludeWalksTargetAsNonRoot ==
    [][ /\ At("Include.generate") =>
               /\ stack = Top.s0.stack
               /\ name = Top.s0.name
               /\ root = Top.s0.root
               /\ Len(out) >= Len(Top.s0.out)
               /\ SubSeq(out, 1, Len(Top.s0.out)) = Top.s0.out
        /\ (AtNode("Block") /\ Including) =>
               /\ Ops(Emitted) = <<"comment", "call">>
               /\ SubSeq(out', 1, Len(out)) = out
               /\ Emitted[1].txt[6] = Last(stack)
               /\ Emitted[2].txt[2] = titleize(stack[1])
               /\ Emitted[2].txt[3] = titleize(Top.node.name)
      ]_vars

\* a's include of b has returned, b's block having emitted its call under root a
C7_Witness ==
    /\ loader = IncludeLib
    /\ At("Include.generate")
    /\ Top.s0.stack = <<"a">>
    /\ ret = "nil"
    /\ Len(out) > Len(Top.s0.out)
    /\ \E i \in 1..Len(out) : out[i].op = "call"

-----------------------------------------------------------------------------
(* C8: indentation is balanced.  Every walk returns (with or without an      *)
(* error) at the depth it was entered at; for, if and else bodies and the    *)
(* scopes of a print and of a condition are emitted deeper than the          *)
(* statement they belong to; the depth is 1 whenever no Generate call runs.  *)

HasT0(f) ==
    f.pc \in {"walk", "Body", "Module.parent", "Module.body", "Include.generate",
              "For.body", "If.body", "If.else"}
\* the lines of a step that lie inside the scope it opened
Inner(lines) == {i \in 1..Len(lines) : \E j \in 1..(i - 1) : lines[j].op = "open"}

C8_IndentBalanced ==
    [][ /\ (cs # <<>> /\ HasT0(Top) /\ cs' = Pop) => tabs' = Top.t0
        /\ (AtNode("Print") /\ ret' = "nil") =>
               /\ \A i \in 1..Len(Emitted) : Emitted[i].ind >= tabs
               /\ \A i \in Inner(Emitted) :
                      i < Len(Emitted) => Emitted[i].ind > tabs
        /\ (AtNode("For") /\ Len(cs') > Len(cs)) =>
               /\ tabs' > tabs
               /\ Last(cs').t0 = tabs'
        /\ (AtNode("If") /\ Len(cs') > Len(cs)) =>
               /\ tabs' > Last(Emitted).ind
               /\ Last(cs').t0 = tabs'
               /\ \A i \in Inner(Emitted) : Emitted[i].ind > tabs
        /\ (At("If.body") /\ Len(cs') > Len(cs)) =>
               /\ tabs' > Last(Emitted).ind
               /\ tabs' > Top.t0
               /\ Last(cs').t0 = tabs'
        /\ cs' = <<>> => tabs' = 1
      ]_vars

\* an if with a condition scope and an else branch has been walked to its end
C8_Witness ==
    /\ At("Body")
    /\ Top.node.nodes[Top.i].k = "If"
    /\ ret = "nil"
    /\ tabs = Top.t0
    /\ \E i \in 1..Len(out) : out[i].op = "else" /\ out[i].ind = 2
    /\ Last(out).op = "close" /\ Last(out).ind = 1

-----------------------------------------------------------------------------
(* C9: no cycle guard *)

\* the literal extends/include targets written anywhere in a node
RECURSIVE NodeRefs(_)
NodeRefs(node) ==
    CASE node.k = "Module" ->
           (IF node.parent.k = "String" THEN {node.parent.text} ELSE {})
           \cup NodeRefs(node.body)
      [] node.k = "Body" -> UNION {NodeRefs(node.nodes[i]) : i \in 1..Len(node.nodes)}
      [] node.k = "Include" -> IF node.tpl.k = "String" THEN {node.tpl.text} ELSE {}
      [] node.k \in {"Block", "For"} -> NodeRefs(node.body)
      [] node.k = "If" -> NodeRefs(node.body) \cup NodeRefs(node.els)
      [] OTHER -> {}

RefsOf(n) ==
    IF n \in DOMAIN loader /\ loader[n].k = "Module" THEN NodeRefs(loader[n]) ELSE {}
RefsOfAll(S) == UNION {RefsOf(m) : m \in S}
\* the templates reachable from n by one or more references (three names: three rounds)
ReachFrom(n) ==
    LET r1 == RefsOf(n)
        r2 == r1 \cup RefsOfAll(r1)
        r3 == r2 \cup RefsOfAll(r2)
    IN r3 \cup RefsOfAll(r3)
AcyclicFrom(n) == \A m \in {n} \cup ReachFrom(n) : m \notin ReachFrom(m)

\* the generate call of frame i was made for an extends or include reference
ByReference(i) == cs[i - 1].pc \in {"Module.parent", "Include.generate"}
\* the entry of g.stack that the generate call of frame i pushed
StackPos(i) == Len(stack) - Cardinality({j \in GenFrames : j > i})
\* a reference was followed into a template that was on the inheritance stack already
ReferenceIntoStack ==
    \E i \in GenFrames :
        /\ ByReference(i)
        /\ \E p \in 1..(StackPos(i) - 1) : stack[p] = cs[i].name
\* a template is being walked by two generate calls at once
WalkedTwiceAtOnce ==
    \E i, j \in GenFrames : i < j /\ cs[i].name = cs[j].name

\* Generate(n) has just been called
Called(n) == Len(cs) = 2 /\ cs[2].pc = "generate" /\ cs[1].name = n

Terminates ==
    \A n \in TplNames : (Called(n) /\ AcyclicFrom(n)) ~> (cs = <<>>)

(* C9 as stated, its second half, for the first Generate call of a fresh    *)
(* generator: once a reference has been followed into a template already    *)
(* on the inheritance stack, that walk never returns (the stack only grows  *)
(* from there, and Generate does not return).                               *)
C9_ReferenceIntoStackNeverReturns ==
    [][ (rets = <<>> /\ ReferenceIntoStack) =>
            (ReferenceIntoStack' /\ cs' # <<>>) ]_vars

(* C9 amended: Generate terminates for every template whose references     *)
(* form an acyclic graph; generate has no cycle guard: a reference to a     *)
(* template that loads is followed even when that template is on the stack;  *)
(* and once a reference has been followed into a template whose own walk is  *)
(* still in progress, that walk never returns, so the stack grows without    *)
(* bound and Generate never returns.  (A name that is on the stack only as   *)
(* a leftover - the root while output runs the block closures, the first     *)
(* call's name during later calls - is walked once more and returns.)        *)
C9_NoCycleGuard ==
    /\ Terminates
    /\ [][ /\ (At("generate") /\ Len(cs) > 2 /\ Top.name \in DOMAIN loader
                  /\ loader[Top.name].k = "Module" /\ Len(stack) < MaxDepth) =>
                  /\ stack' = Append(stack, Top.name)
                  /\ Len(cs') > Len(cs)
           /\ WalkedTwiceAtOnce => (WalkedTwiceAtOnce' /\ cs' # <<>>)
         ]_vars

C9_Witness == WalkedTwiceAtOnce /\ Len(stack) = MaxDepth

-----------------------------------------------------------------------------
(* C10: definition before use in the emitted code *)

\* the result identifiers (val, fnval, right, ...) in a token sequence, in order
RECURSIVE Idents(_)
Idents(t) ==
    IF t = <<>> THEN <<>>
    ELSE IF Len(t) >= 2 /\ t[1] = "fn" /\ t[2] \in {"val", "right"}
         THEN <<"fn" \o t[2]>> \o Idents(SubSeq(t, 3, Len(t)))
         ELSE IF t[1] \in {"val", "right"}
              THEN <<t[1]>> \o Idents(Tail(t))
              ELSE Idents(Tail(t))
IdentSet(t) == {Idents(t)[i] : i \in 1..Len(Idents(t))}

\* the statements of a preamble: its text cut at the newlines
RECURSIVE Statements(_)
Statements(t) ==
    LET nl == Index(t, <<"\n">>)
    IN IF nl = 0 THEN <<t>>
       ELSE <<SubSeq(t, 1, nl - 1)>> \o Statements(SubSeq(t, nl + 1, Len(t)))

Assign(st) == Index(st, <<" := stick.GetAttr(">>)
IsVar(st) == \E i \in 1..Len(st) : st[i] = "var "
StmtDefs(st) ==
    IF Assign(st) > 0 THEN IdentSet(SubSeq(st, 1, Assign(st) - 1))
    ELSE IF IsVar(st) THEN IdentSet(st) ELSE {}
StmtUses(st) ==
    IF Assign(st) > 0 THEN IdentSet(SubSeq(st, Assign(st), Len(st)))
    ELSE IF IsVar(st) THEN {} ELSE IdentSet(st)

\* the statements of a preamble in order: every use is of something defined
RECURSIVE StmtsOk(_, _)
StmtsOk(sts, defined) ==
    IF sts = <<>> THEN [ok |-> TRUE, defined |-> defined]
    ELSE IF ~(StmtUses(Head(sts)) \subseteq defined)
         THEN [ok |-> FALSE, defined |-> defined]
         ELSE StmtsOk(Tail(sts), defined \cup StmtDefs(Head(sts)))

Visible(scopes) == UNION {scopes[i] : i \in 1..Len(scopes)}
Leave(scopes) == IF Len(scopes) > 1 THEN SubSeq(scopes, 1, Len(scopes) - 1) ELSE scopes
Define(scopes, ids) == [scopes EXCEPT ![Len(scopes)] = @ \cup ids]

\* the lines from i on, given the identifiers defined in the scopes open at line i
RECURSIVE LinesOk(_, _, _)
LinesOk(lines, i, scopes) ==
    IF i > Len(lines) THEN TRUE
    ELSE LET l == lines[i]
         IN CASE l.op = "pre" ->
                   LET r == StmtsOk(Statements(l.txt), Visible(scopes))
                   IN r.ok /\ LinesOk(lines, i + 1, Define(scopes, r.defined))
              [] l.op = "iter" ->
                   LET f == Index(l.txt, <<", func(">>)
                   IN /\ IdentSet(SubSeq(l.txt, 1, f)) \subseteq Visible(scopes)
                      /\ LinesOk(lines, i + 1,
                                 Append(scopes, IdentSet(SubSeq(l.txt, f, Len(l.txt)))))
              [] l.op \in {"open", "guard", "if", "func"} ->
                   /\ IdentSet(l.txt) \subseteq Visible(scopes)
                   /\ LinesOk(lines, i + 1, Append(scopes, {}))
              [] l.op = "else" -> LinesOk(lines, i + 1, Append(Leave(scopes), {}))
              [] l.op \in {"close", "iterclose", "endfunc"} ->
                   LinesOk(lines, i + 1, Leave(scopes))
              [] OTHER ->
                   /\ IdentSet(l.txt) \subseteq Visible(scopes)
                   /\ LinesOk(lines, i + 1, scopes)

(* C10: every result identifier (val, fnval, right) a written line uses is  *)
(* defined by a preamble written earlier in the same or an enclosing scope. *)
C10_DefinedBeforeUse == LinesOk(out, 1, <<{}>>)

====
